---- MODULE Spec2Model ----
(***************************************************************************)
(* Model of sql_interface.py: the Unit.to_unit normalisation, the Chain    *)
(* and CurrentPrice tables with their uniqueness rules, and the            *)
(* SessionController operations over one SQLAlchemy session (add,          *)
(* bulk_insert, bulk_update, update, commit, get_or_create,                *)
(* exists_where_list).                                                     *)
(*                                                                         *)
(* The session is modelled by the three layers the code goes through:      *)
(*   new        objects handed to session.add, not yet flushed             *)
(*   txn        rows visible inside the open transaction (flushed)         *)
(*   committed  rows durably committed in the backend                      *)
(* plus the flag `inactive`: a flush that failed outside commit() rolled   *)
(* the transaction back and the session refuses work until rollback().     *)
(***************************************************************************)
EXTENDS Integers, Sequences, FiniteSets, TLC

(***************************************************************************)
(* Bounds of the model.                                                    *)
(***************************************************************************)
MaxPending == 1
MaxPad == 2
MaxLen == 2

(***************************************************************************)
(* Column values.  NULL / Python None is NullInt in a numeric column and   *)
(* NullStr in a text column.                                               *)
(***************************************************************************)
NullInt == 0 - 1
NullStr == "NULL"
FullIds == {1}
SubchainIds == {0, 1}
Names == {"A", "B"}
StoreProductIds == {1, 2}
Prices == {1, 2}

Chain == "Chain"
CurrentPrice == "CurrentPrice"

\* keyword arguments of a Chain constructor / filter_by: a record over a
\* subset of the non-generated columns
ChainKwargs ==
    [full_id : FullIds, subchain_id : SubchainIds, name : Names]
        \cup [full_id : FullIds]
        \cup [name : Names]

\* keyword arguments of a CurrentPrice constructor / filter_by
CurrentPriceKwargs ==
    [store_product_id : StoreProductIds, price : Prices]
        \cup [price : Prices]
        \cup [store_product_id : StoreProductIds]

Kwargs(model) == IF model = Chain THEN ChainKwargs ELSE CurrentPriceKwargs

\* model(**kwargs): a transient instance, no row behind it yet
Instance(model, kwargs) == [model |-> model, kw |-> kwargs]

EmptyDb == [m \in {Chain, CurrentPrice} |-> {}]

(***************************************************************************)
(* The backend: INSERT with column defaults, NOT NULL and uniqueness.      *)
(***************************************************************************)
Max(S) == CHOOSE x \in S : \A y \in S : y <= x

\* id = Column(Integer, primary_key=True, autoincrement=True): the next
\* rowid of the table
NextId(rows) == IF rows = {} THEN 1 ELSE Max({r.id : r \in rows}) + 1

\* columns that must be given: full_id is nullable=False, price is the
\* primary key of current_price
Required(model) == IF model = Chain THEN {"full_id"} ELSE {"price"}

\* the row an INSERT of the instance writes (defaults applied)
RowOf(model, kw, rows) ==
    IF model = Chain
    THEN [id |-> NextId(rows),
          full_id |-> kw.full_id,
          subchain_id |-> IF "subchain_id" \in DOMAIN kw THEN kw.subchain_id ELSE 0,
          name |-> IF "name" \in DOMAIN kw THEN kw.name ELSE NullStr]
    ELSE [store_product_id |-> IF "store_product_id" \in DOMAIN kw
                               THEN kw.store_product_id ELSE NullInt,
          price |-> kw.price]

\* variant: the UniqueConstraint never reaches the chains table
SameKeyChainUnconstrained(model, r, s) ==
    IF model = Chain THEN FALSE ELSE r.price = s.price

\* variant: current_price keyed by store_product_id instead of price
SameKeyStoreProduct(model, r, s) ==
    IF model = Chain
    THEN r.full_id = s.full_id /\ r.subchain_id = s.subchain_id
    ELSE r.store_product_id = s.store_product_id

\* UniqueConstraint(full_id, subchain_id) of Chain; primary key price of
\* CurrentPrice
SameKey(model, r, s) ==
    IF model = Chain
    THEN r.full_id = s.full_id /\ r.subchain_id = s.subchain_id
    ELSE r.price = s.price

\* the backend's answer to the INSERT of one instance
InsertError(model, kw, rows) ==
    IF ~(Required(model) \subseteq DOMAIN kw) THEN "NOT NULL constraint failed"
    ELSE IF \E r \in rows : SameKey(model, r, RowOf(model, kw, rows))
         THEN "UNIQUE constraint failed"
         ELSE "None"

\* session.flush(): INSERT the pending instances in the order they were
\* added; the first rejected INSERT fails the flush
RECURSIVE Flush(_, _)
Flush(db, pending) ==
    IF pending = <<>>
    THEN [error |-> "None", db |-> db]
    ELSE LET i == Head(pending)
             e == InsertError(i.model, i.kw, db[i.model])
         IN  IF e = "None"
             THEN Flush([db EXCEPT ![i.model] =
                            @ \cup {RowOf(i.model, i.kw, db[i.model])}],
                        Tail(pending))
             ELSE [error |-> e, db |-> db]

\* filter_by(**kwargs): exact conjunction of column = value
Matches(row, kw) == \A c \in DOMAIN kw : row[c] = kw[c]

(***************************************************************************)
(* State.                                                                  *)
(*   op, args, ret, inst  the last call, its arguments, what it returned   *)
(*                        or raised, and the instance it returned          *)
(*   logged               what the last call wrote to the logger           *)
(*   was_dirty            the session had uncommitted changes when the     *)
(*                        last call started                                *)
(*   recovery             progress of a caller that retries after a failed *)
(*                        commit: failed, added, retried                   *)
(***************************************************************************)
VARIABLES committed, txn, new, inactive, op, args, ret, inst, logged,
          was_dirty, recovery

vars == <<committed, txn, new, inactive, op, args, ret, inst, logged,
          was_dirty, recovery>>

NoArgs == [model |-> "None"]

\* the session holds changes that are not committed
Dirty == txn # committed \/ new # <<>>

\* SessionController(): a fresh session on an empty schema
InitSession ==
    /\ committed = EmptyDb
    /\ txn = EmptyDb
    /\ new = <<>>
    /\ inactive = FALSE
    /\ op = "init"
    /\ ret = "None"
    /\ inst = {}
    /\ logged = <<>>
    /\ was_dirty = FALSE
    /\ recovery = "idle"

Init == InitSession /\ args = NoArgs

(***************************************************************************)
(* SessionController operations.                                           *)
(***************************************************************************)

\* add(model): session.add(instance), nothing is sent to the backend
add(model) ==
    \E kw \in Kwargs(model) :
        /\ Len(new) < MaxPending
        /\ new' = Append(new, Instance(model, kw))
        /\ op' = "add"
        /\ args' = NoArgs
        /\ ret' = "None"
        /\ inst' = {}
        /\ logged' = <<>>
        /\ was_dirty' = Dirty
        /\ recovery' = IF recovery = "failed" THEN "added" ELSE "idle"
        /\ UNCHANGED <<committed, txn, inactive>>

\* the exception session.commit() raises, "None" when it commits:
\* the session refuses after a failed flush, the flush is rejected, or the
\* backend fails the COMMIT
CommitError(db, pending, refused, backend_ok) ==
    IF refused THEN "InvalidRequestError"
    ELSE IF Flush(db, pending).error # "None" THEN Flush(db, pending).error
    ELSE IF ~backend_ok THEN "OperationalError"
    ELSE "None"

\* what commit() logs
CommitLog(e) ==
    IF e = "None" THEN <<"Committing to db", "Commit ended successfully">>
    ELSE <<"Committing to db", "Commit to DB failed", e>>

\* variant: the exception is handed to the caller instead of False
CommitReturnPropagates(e) == IF e = "None" THEN "True" ELSE e

\* what commit() returns: False from the except branch, True otherwise
CommitReturn(e) == IF e = "None" THEN "True" ELSE "False"

\* variant: no rollback, what was flushed before the failure stays
CommitResultNoRollback(e, flushed, durable) == flushed

\* the backend after commit(): the flushed rows once committed, the last
\* committed rows after session.rollback()
CommitResult(e, flushed, durable) == IF e = "None" THEN flushed ELSE durable

\* commit(): session.commit() flushes and commits; any exception is caught
\* and logged, the transaction is rolled back and False is returned
commit ==
    \E backend_ok \in BOOLEAN :
        LET e == CommitError(txn, new, inactive, backend_ok)
            db == CommitResult(e, Flush(txn, new).db, committed)
        IN  /\ committed' = db
            /\ txn' = db
            /\ new' = <<>>
            /\ inactive' = FALSE
            /\ op' = "commit"
            /\ args' = [model |-> "None", backend_ok |-> backend_ok]
            /\ ret' = CommitReturn(e)
            /\ inst' = {}
            /\ logged' = CommitLog(e)
            /\ was_dirty' = Dirty
            /\ recovery' = IF e # "None" THEN "failed"
                           ELSE IF recovery = "added" THEN "retried" ELSE "idle"

\* what a query does before it runs (autoflush=True): refuse on an inactive
\* transaction, otherwise flush the pending instances
Autoflush ==
    IF inactive
    THEN [raise |-> "InvalidRequestError", db |-> txn]
    ELSE LET f == Flush(txn, new)
         IN  IF f.error = "None" THEN [raise |-> "None", db |-> f.db]
             ELSE [raise |-> f.error, db |-> committed]

\* the state an exception raised by the session leaves behind (no handler
\* in the controller): a rejected flush has rolled the transaction back,
\* expunged the pending instances and deactivated the session; a refused
\* call or a missing attribute changes nothing
Raise(error) ==
    /\ ret' = error
    /\ inst' = {}
    /\ logged' = <<>>
    /\ IF error \in {"NOT NULL constraint failed", "UNIQUE constraint failed"}
       THEN txn' = committed /\ new' = <<>> /\ inactive' = TRUE
       ELSE UNCHANGED <<txn, new, inactive>>
    /\ UNCHANGED committed

\* the instance as the caller holds it when no row was written for it
Transient(model, kw) ==
    LET int(c) == IF c \in DOMAIN kw THEN kw[c] ELSE NullInt
        str(c) == IF c \in DOMAIN kw THEN kw[c] ELSE NullStr
    IN  [state |-> "transient",
         row |-> IF model = Chain
                 THEN [id |-> NullInt, full_id |-> int("full_id"),
                       subchain_id |-> int("subchain_id"), name |-> str("name")]
                 ELSE [store_product_id |-> int("store_product_id"),
                       price |-> int("price")]]

\* an instance loaded from, or written as, a row of the open transaction
Persistent(row) == [state |-> "persistent", row |-> row]

\* the objects of a bulk_insert call: one or two transient instances
Objects(model) ==
    {<<Instance(model, k)>> : k \in Kwargs(model)}
        \cup {<<Instance(model, k1), Instance(model, k2)>> :
                 k1 \in Kwargs(model), k2 \in Kwargs(model)}

\* bulk_insert(objects): session.bulk_save_objects INSERTs at once inside
\* the transaction, without touching the pending instances
bulk_insert(model) ==
    \E objects \in Objects(model) :
        LET f == Flush(txn, objects)
        IN  /\ op' = "bulk_insert"
            /\ args' = NoArgs
            /\ was_dirty' = Dirty
            /\ recovery' = "idle"
            /\ IF inactive THEN Raise("InvalidRequestError")
               ELSE IF f.error # "None" THEN Raise(f.error)
               ELSE /\ txn' = f.db
                    /\ ret' = "None"
                    /\ inst' = {}
                    /\ logged' = <<>>
                    /\ UNCHANGED <<committed, new, inactive>>

\* the bulk methods a sqlalchemy Session has
SessionMethods ==
    {"bulk_save_objects", "bulk_insert_mappings", "bulk_update_mappings"}

\* mappings of bulk_update: the primary key plus the new value
Mappings(model) ==
    IF model = Chain
    THEN [id : {1, 2}, name : Names]
    ELSE [price : Prices, store_product_id : StoreProductIds]

\* the UPDATE ... WHERE pk = :pk of one mapping
ApplyMapping(model, rows, m) ==
    IF model = Chain
    THEN {IF r.id = m.id THEN [r EXCEPT !.name = m.name] ELSE r : r \in rows}
    ELSE {IF r.price = m.price
          THEN [r EXCEPT !.store_product_id = m.store_product_id] ELSE r :
             r \in rows}

\* bulk_update(mapper, mappings): calls self.session.bulk_update_mapping
bulk_update(model) ==
    \E m \in Mappings(model) :
        /\ op' = "bulk_update"
        /\ args' = NoArgs
        /\ was_dirty' = Dirty
        /\ recovery' = "idle"
        /\ IF "bulk_update_mapping" \notin SessionMethods
           THEN Raise("AttributeError")
           ELSE IF inactive THEN Raise("InvalidRequestError")
           ELSE /\ txn' = [txn EXCEPT ![model] = ApplyMapping(model, @, m)]
                /\ ret' = "None"
                /\ inst' = {}
                /\ logged' = <<>>
                /\ UNCHANGED <<committed, new, inactive>>

\* update_dict of update(): a value for one non-key column
UpdateDicts(model) ==
    IF model = Chain THEN [name : Names]
    ELSE [store_product_id : StoreProductIds]

SetColumns(row, d) == [c \in DOMAIN row |-> IF c \in DOMAIN d THEN d[c] ELSE row[c]]

\* update(model, update_dict): session.query(model).update(update_dict), an
\* UPDATE of every row of the table inside the transaction
update(model) ==
    \E d \in UpdateDicts(model) :
        LET a == Autoflush
        IN  /\ op' = "update"
            /\ args' = NoArgs
            /\ was_dirty' = Dirty
            /\ recovery' = "idle"
            /\ IF a.raise # "None" THEN Raise(a.raise)
               ELSE /\ txn' = [a.db EXCEPT ![model] = {SetColumns(r, d) : r \in @}]
                    /\ new' = <<>>
                    /\ ret' = "None"
                    /\ inst' = {}
                    /\ logged' = <<>>
                    /\ UNCHANGED <<committed, inactive>>

\* variant: the lookup never finds the row
FoundNothing(rows, kw) == {}

\* self.query(model).filter_by(**kwargs): the rows .first() picks from
Found(rows, kw) == {r \in rows : Matches(r, kw)}

\* get_or_create(model, **kwargs)
get_or_create(model) ==
    \E kw \in Kwargs(model), backend_ok \in BOOLEAN :
        LET a == Autoflush
            found == Found(a.db[model], kw)
            instance == Instance(model, kw)
            e == CommitError(a.db, <<instance>>, FALSE, backend_ok)
            db == CommitResult(e, Flush(a.db, <<instance>>).db, committed)
        IN  /\ op' = "get_or_create"
            /\ args' = instance
            /\ was_dirty' = Dirty
            /\ IF a.raise # "None"
               THEN Raise(a.raise) /\ recovery' = "idle"
               ELSE IF found # {}
               THEN \* .first(): some matching row, the query has no ORDER BY
                    /\ \E r \in found : inst' = {Persistent(r)}
                    /\ ret' = "instance"
                    /\ logged' = <<>>
                    /\ txn' = a.db
                    /\ new' = <<>>
                    /\ recovery' = "idle"
                    /\ UNCHANGED <<committed, inactive>>
               ELSE \* instance = model(**kwargs); self.add(instance);
                    \* self.commit(); return instance
                    /\ committed' = db
                    /\ txn' = db
                    /\ new' = <<>>
                    /\ inactive' = FALSE
                    /\ ret' = "instance"
                    /\ logged' = CommitLog(e)
                    /\ inst' = IF e = "None"
                               THEN {Persistent(r) : r \in db[model] \ a.db[model]}
                               ELSE {Transient(model, kw)}
                    /\ recovery' = IF e = "None" THEN "idle" ELSE "failed"

\* zip(obj_fields, values): pairs up to the shorter of the two lists
RECURSIVE zip(_, _)
zip(xs, ys) ==
    IF xs = <<>> \/ ys = <<>> THEN <<>>
    ELSE <<[field |-> Head(xs), value |-> Head(ys)]>> \o zip(Tail(xs), Tail(ys))

\* variant: the clauses joined with or_
RECURSIVE or_(_, _)
or_(clauses, row) ==
    IF clauses = <<>> THEN FALSE
    ELSE row[Head(clauses).field] = Head(clauses).value \/ or_(Tail(clauses), row)

\* and_(*[field == value ...]) evaluated on one row
RECURSIVE and_(_, _)
and_(clauses, row) ==
    IF clauses = <<>> THEN TRUE
    ELSE row[Head(clauses).field] = Head(clauses).value /\ and_(Tail(clauses), row)

\* the values a column of Chain can be compared with
ColumnValues(c) ==
    IF c = "full_id" THEN FullIds
    ELSE IF c = "subchain_id" THEN SubchainIds
    ELSE Names \cup {NullStr}

ChainColumns == {"full_id", "subchain_id", "name"}

\* obj_fields and values of an exists_where_list call: one or two columns
\* of Chain, one or two values
FieldLists == {<<c>> : c \in ChainColumns} \cup (ChainColumns \X ChainColumns)

ValueLists(fields) ==
    LET first == ColumnValues(fields[1])
        second == IF Len(fields) > 1 THEN ColumnValues(fields[2]) ELSE SubchainIds
    IN  {<<v>> : v \in first} \cup (first \X second)

\* exists_where_list(obj_fields, values):
\* session.query(exists().where(and_(...))).scalar()
exists_where_list(model) ==
    \E fields \in FieldLists :
        \E values \in ValueLists(fields) :
            LET a == Autoflush
            IN  /\ op' = "exists_where_list"
                /\ args' = [model |-> model, fields |-> fields, values |-> values]
                /\ was_dirty' = Dirty
                /\ recovery' = "idle"
                /\ IF a.raise # "None" THEN Raise(a.raise)
                   ELSE /\ ret' = IF \E r \in a.db[model] : and_(zip(fields, values), r)
                                  THEN "True" ELSE "False"
                        /\ txn' = a.db
                        /\ new' = <<>>
                        /\ inst' = {}
                        /\ logged' = <<>>
                        /\ UNCHANGED <<committed, inactive>>

(***************************************************************************)
(* Unit.to_unit.  A string is the sequence of its code points.             *)
(***************************************************************************)
Unit_unknown == 0
Unit_kg == 1
Unit_gr == 2
Unit_liter == 3
Unit_ml == 4
Unit_unit == 5
Unit_m == 6

\* the code points str.strip() removes
Whitespace ==
    {9, 10, 11, 12, 13, 28, 29, 30, 31, 32, 133, 160, 5760, 8232, 8233,
     8239, 8287, 12288} \cup (8192..8202)

\* str_dict, in its insertion order
str_dict ==
    << [unit_type |-> Unit_kg,
        strings |-> << <<1511, 1490>>,
                       <<1511, 1497, 1500, 1493, 1490, 1512, 1501>>,
                       <<1511, 1497, 1500, 1493, 1490, 1512, 1502, 1497, 1501>>,
                       <<1511, 34, 1490>> >>],
       [unit_type |-> Unit_gr,
        strings |-> << <<1490, 1512>>,
                       <<1490, 1512, 1502, 1497, 1501>>,
                       <<1490, 1512, 39>> >>],
       [unit_type |-> Unit_liter,
        strings |-> << <<1500, 1497, 1496, 1512>>,
                       <<1500, 1497, 1496, 1512, 1497, 1501>>,
                       <<1500, 39>> >>],
       [unit_type |-> Unit_ml,
        strings |-> << <<1502, 34, 1500>>,
                       <<1502, 1497, 1500, 1497, 1500, 1497, 1496, 1512, 1497, 1501>>,
                       <<1502, 1497, 1500, 1497, 1500, 1497, 1496, 1512>>,
                       <<1502, 1500>> >>],
       [unit_type |-> Unit_unit,
        strings |-> << <<1497, 1495, 1497, 1491, 1492>> >>],
       [unit_type |-> Unit_m,
        strings |-> << <<1502, 1496, 1512>>,
                       <<1502, 1496, 1512, 1497, 1501>>,
                       <<1502>>,
                       <<1502, 39>> >>] >>

\* str.lstrip() and str.rstrip()
RECURSIVE lstrip(_)
lstrip(s) ==
    IF s # <<>> /\ Head(s) \in Whitespace THEN lstrip(Tail(s)) ELSE s

RECURSIVE rstrip(_)
rstrip(s) ==
    IF s # <<>> /\ s[Len(s)] \in Whitespace
    THEN rstrip(SubSeq(s, 1, Len(s) - 1)) ELSE s

\* variant: only leading whitespace is removed
stripLeft(unit_str) ==
    IF unit_str.type = "str" THEN lstrip(unit_str.value) ELSE <<>>

\* unit_str.strip(); a value without a strip attribute raises
\* AttributeError and becomes ''
strip(unit_str) ==
    IF unit_str.type = "str" THEN rstrip(lstrip(unit_str.value)) ELSE <<>>

\* any(s == unit_str for s in unit_type_strings)
RECURSIVE any(_, _)
any(strings, unit_str) ==
    IF strings = <<>> THEN FALSE
    ELSE Head(strings) = unit_str \/ any(Tail(strings), unit_str)

\* the loop over str_dict.items(), then return Unit.unknown.value
RECURSIVE lookup(_, _)
lookup(items, unit_str) ==
    IF items = <<>> THEN Unit_unknown
    ELSE IF any(Head(items).strings, unit_str) THEN Head(items).unit_type
    ELSE lookup(Tail(items), unit_str)

to_unit_value(unit_str) == lookup(str_dict, strip(unit_str))

\* every alias of the table
Aliases == UNION {{it.strings[i] : i \in DOMAIN it.strings} :
                     it \in {str_dict[k] : k \in DOMAIN str_dict}}

\* all sequences over S of length at most n
SeqsUpTo(S, n) == UNION {[1..k -> S] : k \in 0..n}

\* surrounding text tried around an alias: space and no-break space
PadChars == {32, 160}
Pads == SeqsUpTo(PadChars, MaxPad)

\* short free text: mem, lamed, apostrophe, space, zero width space (which
\* is not whitespace)
Alphabet == {1502, 1500, 39, 32, 8203}

\* the str inputs: padded aliases, short free text, and near misses of an
\* alias (one character more, one less, a space inside, Latin text)
StrInputs ==
    {pre \o a \o post : pre \in Pads, post \in Pads, a \in Aliases}
        \cup SeqsUpTo(Alphabet, MaxLen)
        \cup {a \o <<c>> : a \in Aliases, c \in Alphabet \ PadChars}
        \cup {<<c>> \o a : a \in Aliases, c \in Alphabet \ PadChars}
        \cup {SubSeq(a, 1, Len(a) - 1) : a \in Aliases}
        \cup {<<Head(a), 32>> \o Tail(a) : a \in Aliases}
        \cup {<<107, 103>>, <<75, 71>>}

\* what callers pass: a str, None, or a value of another type
UnitInputs ==
    {[type |-> "str", value |-> v] : v \in StrInputs}
        \cup {[type |-> t, value |-> <<>>] : t \in {"NoneType", "int", "float"}}

\* a caller about to pass one of the inputs
InitUnit == InitSession /\ args \in {[unit_str |-> u] : u \in UnitInputs}

\* Unit.to_unit(unit_str)
to_unit ==
    /\ op = "init"
    /\ op' = "to_unit"
    /\ ret' = to_unit_value(args.unit_str)
    /\ UNCHANGED <<committed, txn, new, inactive, args, inst, logged, was_dirty,
                   recovery>>

Next ==
    \/ add(Chain)
    \/ bulk_insert(Chain)
    \/ bulk_update(Chain)
    \/ update(Chain)
    \/ get_or_create(Chain)
    \/ commit

\* the controller over the chains table
Spec == Init /\ [][Next]_vars

NextPrice ==
    \/ add(CurrentPrice)
    \/ bulk_insert(CurrentPrice)
    \/ bulk_update(CurrentPrice)
    \/ update(CurrentPrice)
    \/ get_or_create(CurrentPrice)
    \/ commit

\* the controller over the current_price table
SpecPrice == Init /\ [][NextPrice]_vars

NextQuery ==
    \/ add(Chain)
    \/ update(Chain)
    \/ commit
    \/ exists_where_list(Chain)

\* seeding rows and asking exists_where_list
SpecQuery == Init /\ [][NextQuery]_vars

NextUnit == to_unit

\* calls of Unit.to_unit
SpecUnit == InitUnit /\ [][NextUnit]_vars

(***************************************************************************)
(* Properties.                                                             *)
(***************************************************************************)
Tables == {Chain, CurrentPrice}

\* no uncommitted change is left in the session
Clean == txn = committed /\ new = <<>> /\ ~inactive

\* the rows a query of the session sees once the pending instances are
\* flushed
Visible(model) == Flush(txn, new).db[model]

\* every change staged in the current state is among the rows `db` of the
\* next state: the rows written inside the transaction, and one row of its
\* own for each pending instance
StagedIn(db) ==
    /\ \A t \in Tables : txn[t] \subseteq db[t]
    /\ \A k \in DOMAIN new :
           \E r \in db[new[k].model] \ txn[new[k].model] : Matches(r, new[k].kw)
    /\ \A t \in Tables :
           Cardinality(db[t]) >=
               Cardinality(txn[t]) + Cardinality({k \in DOMAIN new : new[k].model = t})

\* C1: calling get_or_create twice in a row with identical fields returns
\* an entity with the same primary key both times, and exactly one row
\* matching those fields exists in the backend afterward.
C1_GetOrCreateIdempotent ==
    [][(/\ op = "get_or_create" /\ ret = "instance"
        /\ op' = "get_or_create" /\ ret' = "instance"
        /\ args' = args)
       => /\ {i.row.id : i \in inst'} = {i.row.id : i \in inst}
          /\ Cardinality({r \in committed'[args'.model] : Matches(r, args'.kw)}) = 1]_vars

\* C2: whenever get_or_create returns, the returned instance corresponds to
\* a row that is committed in the backend, also when the row had to be
\* created and the internal commit() failed.
C2_GetOrCreateReturnsPersisted ==
    (op = "get_or_create" /\ ret = "instance")
        => \A i \in inst : i.state = "persistent" /\ i.row \in committed[args.model]

\* C3: commit() never propagates a backend error: it returns True exactly
\* when the session could flush and the backend committed, and otherwise
\* it has rolled the transaction back and returns False.
C3_CommitNeverPropagates ==
    [][op' = "commit"
       => /\ ret' \in {"True", "False"}
          /\ ret' = "True" <=>
                 (/\ ~inactive
                  /\ \A k \in DOMAIN new :
                         /\ Required(new[k].model) \subseteq DOMAIN new[k].kw
                         /\ \E r \in committed'[new[k].model] : Matches(r, new[k].kw)
                  /\ StagedIn(committed')
                  /\ args'.backend_ok)
          /\ ret' = "False" =>
                 committed' = committed /\ txn' = committed /\ new' = <<>> /\ ~inactive']_vars

C3_Witness ==
    /\ op = "commit" /\ ret = "False" /\ was_dirty
    /\ logged = CommitLog("OperationalError")

\* a pending Chain whose (full_id, subchain_id) is already committed
StagedDuplicateChain ==
    \E k \in DOMAIN new :
        /\ new[k].model = Chain
        /\ "full_id" \in DOMAIN new[k].kw
        /\ \E r \in committed[Chain] :
               /\ r.full_id = new[k].kw.full_id
               /\ r.subchain_id = IF "subchain_id" \in DOMAIN new[k].kw
                                  THEN new[k].kw.subchain_id ELSE 0

\* C4: no two committed Chain rows share (full_id, subchain_id); a commit()
\* with a staged chain whose (full_id, subchain_id) is already used returns
\* False and persists nothing.
C4_ChainKeyUnique ==
    [][/\ \A r, q \in committed'[Chain] :
              (r.full_id = q.full_id /\ r.subchain_id = q.subchain_id) => r = q
       /\ (op' = "commit" /\ StagedDuplicateChain)
              => (ret' = "False" /\ committed' = committed)]_vars

C4_Witness ==
    /\ op = "commit" /\ ret = "False"
    /\ logged = CommitLog("UNIQUE constraint failed")
    /\ committed[Chain] # {}

\* s is the alias a with nothing but whitespace before and after it
IsPadded(s, a) ==
    \E i \in 0..Len(s) :
        /\ i + Len(a) <= Len(s)
        /\ SubSeq(s, i + 1, i + Len(a)) = a
        /\ \A k \in 1..i : s[k] \in Whitespace
        /\ \A k \in (i + Len(a) + 1)..Len(s) : s[k] \in Whitespace

\* the kinds whose alias list holds the trimmed input
KindsOf(u) ==
    {str_dict[n].unit_type : n \in
        {n \in DOMAIN str_dict :
            /\ u.type = "str"
            /\ \E j \in DOMAIN str_dict[n].strings :
                   IsPadded(u.value, str_dict[n].strings[j])}}

\* C5: to_unit returns the code of kind K exactly when the input, trimmed
\* of surrounding whitespace, equals one of the aliases of K, and the
\* unknown code for every other input (None, non-strings, other text).
C5_ToUnitTotal ==
    op = "to_unit"
        => /\ ret \in 0..6
           /\ \A n \in DOMAIN str_dict :
                  ret = str_dict[n].unit_type <=> str_dict[n].unit_type \in KindsOf(args.unit_str)
           /\ ret = Unit_unknown <=> KindsOf(args.unit_str) = {}

C5_Witness ==
    /\ op = "to_unit" /\ ret = Unit_kg
    /\ args.unit_str.value \notin Aliases

Min(a, b) == IF a <= b THEN a ELSE b

\* a manual scan of the rows: one row satisfies every pair
ScanAll(rows, fields, values) ==
    \E r \in rows :
        \A k \in 1..Min(Len(fields), Len(values)) : r[fields[k]] = values[k]

\* C6: exists_where_list returns true if and only if at least one single
\* row has every given field equal to its paired value.
C6_ExistsWhereListIsAnd ==
    (op = "exists_where_list" /\ ret \in {"True", "False"})
        => (ret = "True" <=> ScanAll(txn[args.model], args.fields, args.values))

\* each pair is satisfied by some row, but by no row together
C6_Witness ==
    /\ op = "exists_where_list" /\ ret = "False"
    /\ Len(args.fields) = 2 /\ Len(args.values) = 2
    /\ \A k \in 1..2 : \E r \in txn[args.model] : r[args.fields[k]] = args.values[k]

\* C7: bulk_update called with mappings that include the primary key
\* completes without error.
C7_BulkUpdateCompletes ==
    op = "bulk_update" => ret = "None"

\* the pending instance would be accepted by the backend as it stands
Valid(i, db) ==
    /\ Required(i.model) \subseteq DOMAIN i.kw
    /\ IF i.model = Chain
       THEN \A r \in db[Chain] :
                ~(/\ r.full_id = i.kw.full_id
                  /\ r.subchain_id = IF "subchain_id" \in DOMAIN i.kw
                                     THEN i.kw.subchain_id ELSE 0)
       ELSE \A r \in db[CurrentPrice] : r.price # i.kw.price

\* C8: commit() is all-or-nothing and ends clean: after True every staged
\* change is committed; after False the backend holds what it held and
\* nothing stays staged; and after a failed commit, adding a valid row and
\* committing again (backend reachable) returns True and persists the row.
C8_CommitAllOrNothing ==
    [][op' = "commit"
       => /\ txn' = committed' /\ new' = <<>> /\ ~inactive'
          /\ ret' = "True" => StagedIn(committed')
          /\ ret' = "False" => committed' = committed
          /\ (/\ recovery = "added" /\ args'.backend_ok
              /\ Len(new) = 1 /\ Valid(new[1], committed))
                 => /\ ret' = "True"
                    /\ \E r \in committed'[new[1].model] \ committed[new[1].model] :
                           Matches(r, new[1].kw)]_vars

C8_Witness ==
    /\ op = "commit" /\ ret = "True" /\ recovery = "retried"
    /\ committed[Chain] # {}

\* C9: get_or_create commits exactly when it creates.  No row matches: a
\* full commit cycle, the staged changes are committed with the new row or
\* rolled back with it, and the session is clean.  A row matches: no commit
\* and no rollback, the staged changes stay staged and uncommitted.
C9_GetOrCreateCommitsIffCreates ==
    [][(op' = "get_or_create" /\ ret' = "instance")
       => LET model == args'.model
              matched == \E r \in Visible(model) : Matches(r, args'.kw)
          IN  /\ matched <=> logged' = <<>>
              /\ ~matched =>
                     /\ txn' = committed' /\ new' = <<>> /\ ~inactive'
                     /\ \A i \in inst' :
                            IF i.state = "persistent"
                            THEN /\ StagedIn(committed')
                                 /\ i.row \in committed'[model] \ Visible(model)
                            ELSE committed' = committed
              /\ matched =>
                     /\ committed' = committed
                     /\ StagedIn(txn')
                     /\ \A t \in Tables :
                            (txn'[t] \ committed'[t]) = (Visible(t) \ committed[t])]_vars

C9_Witness ==
    /\ op = "get_or_create" /\ ret = "instance" /\ logged = <<>>
    /\ was_dirty /\ txn # committed

\* a pending CurrentPrice whose price is already committed
StagedDuplicatePrice ==
    \E k \in DOMAIN new :
        /\ new[k].model = CurrentPrice
        /\ "price" \in DOMAIN new[k].kw
        /\ \E r \in committed[CurrentPrice] : r.price = new[k].kw.price

\* C10: no two committed CurrentPrice rows have the same price, whatever
\* their store-products: committing a second row with a stored price
\* returns False; a row with a new price is accepted also when its
\* store_product_id is already used.
C10_PriceIdentifiesCurrentPrice ==
    [][/\ \A r, q \in committed'[CurrentPrice] : r.price = q.price => r = q
       /\ (op' = "commit" /\ StagedDuplicatePrice)
              => (ret' = "False" /\ committed' = committed)
       /\ (/\ op' = "commit" /\ args'.backend_ok /\ ~inactive
           /\ \A k \in DOMAIN new : Valid(new[k], txn)
           /\ Len(new) <= 1)
              => (ret' = "True" /\ StagedIn(committed'))]_vars

C10_Witness ==
    /\ op = "commit" /\ ret = "False"
    /\ logged = CommitLog("UNIQUE constraint failed")
    /\ \E r, q \in committed[CurrentPrice] :
           r.store_product_id = q.store_product_id /\ r.price # q.price
====
